---- MODULE Spec2Model ----
(***************************************************************************)
(* Model of backend/app.py: the lazily loaded process-wide models          *)
(* (emotion_model, face_detection), load_models, and the three request     *)
(* handlers health_check, detect_emotion and analyze_image, served by a    *)
(* thread-per-request server.                                              *)
(***************************************************************************)
EXTENDS Integers, Sequences, FiniteSets, TLC

\* ------------------------------------------------------------------ bounds
NumThreads == 2
MaxFaces == 2
MaxLen == 8

Threads == 1..NumThreads

\* --------------------------------------------------------------- constants
\* line 22: the fixed label list, in model-output order
EMOTIONS == <<"Angry", "Disgust", "Fear", "Happy", "Sad", "Surprise", "Neutral">>

\* lines 20-21: the value of a global that holds no model yet
None == 0

\* side of the square classifier input (lines 113, 129)
InputSize == 48

\* ------------------------------------------------------------ value spaces
\* Classifier scores are numpy float32 scalars; the number is kept in tenths.
Scores == {0, 1, 9}
F32(s) == [f32 |-> s]

\* every vector the opaque classifier may hand back, whatever its length
AllOutputs == UNION {[1..n -> {F32(s) : s \in Scores}] : n \in 0..MaxLen}

\* a decoded grayscale raster (uint8 pixels), and the absence of one
Frame == [w |-> 64, h |-> 64, lo |-> 0, hi |-> 255]
NoRaster == [w |-> 0, h |-> 0, lo |-> 0, hi |-> 0]

\* face rectangles (x, y, w, h) the detector may report: a small one first,
\* a larger one, in any order and multiplicity
Regions == {<<0, 0, 30, 30>>, <<8, 4, 40, 48>>}
FaceSeqs == UNION {[1..n -> Regions] : n \in 0..MaxFaces}

NoTensor == [roi |-> <<0, 0, 0, 0>>, shape |-> <<>>, lo |-> 0, hi |-> 0]
NoOutput == [ok |-> FALSE, v |-> <<>>]
NoResponse == [status |-> 0, body |-> [none |-> TRUE]]

Kinds == {"health", "detect", "analyze"}

\* what a request carries, by handler
\*   detect : request.json raises (the body is not JSON) / is None / is {} /
\*            is a dict without 'image' / a dict whose 'image' is not base64 /
\*            is base64 of non-image bytes / is base64 of an image
\*   analyze: no 'file' part / empty filename / non-image bytes / an image
AllInputs(k) ==
    CASE k = "health"  -> {"none"}
      [] k = "detect"  -> {"unparsable", "null", "empty", "noimage", "bad_b64",
                            "not_image", "image"}
      [] k = "analyze" -> {"nofile", "noname", "not_image", "image"}

VARIABLES
    cascade_file,     \* os.path.exists(FACE_CASCADE_PATH)
    face_detection,   \* global, None or the id of the constructed detector
    emotion_model,    \* global, None or the id of the constructed classifier
    faceLoads,        \* number of detectors constructed so far
    emoLoads,         \* number of classifiers constructed so far
    pc,               \* per thread: position in the handler
    kind,             \* per thread: which handler serves the request
    inp,              \* per thread: what the request carries
    loadRet,          \* per thread: "none", or what load_models returned
    gray,             \* per thread: local gray
    faces,            \* per thread: local faces
    tensor,           \* per thread: local face_input
    out,              \* per thread: what emotion_model.predict returned
    detCalls,         \* per thread: detectMultiScale calls of this request
    clsCalls,         \* per thread: predict calls of this request
    resp              \* per thread: the handler's return value

vars == <<cascade_file, face_detection, emotion_model, faceLoads, emoLoads,
          pc, kind, inp, loadRet, gray, faces, tensor, out, detCalls,
          clsCalls, resp>>

globals == <<cascade_file, face_detection, emotion_model, faceLoads, emoLoads>>
locals == <<gray, faces, tensor, out, detCalls, clsCalls>>

Init ==
    /\ cascade_file \in BOOLEAN
    /\ face_detection = None
    /\ emotion_model = None
    /\ faceLoads = 0
    /\ emoLoads = 0
    /\ pc = [t \in Threads |-> "idle"]
    /\ kind = [t \in Threads |-> "health"]
    /\ inp = [t \in Threads |-> "none"]
    /\ loadRet = [t \in Threads |-> "none"]
    /\ gray = [t \in Threads |-> NoRaster]
    /\ faces = [t \in Threads |-> <<>>]
    /\ tensor = [t \in Threads |-> NoTensor]
    /\ out = [t \in Threads |-> NoOutput]
    /\ detCalls = [t \in Threads |-> 0]
    /\ clsCalls = [t \in Threads |-> 0]
    /\ resp = [t \in Threads |-> NoResponse]

\* ------------------------------------------------------------ pure helpers
\* jsonify({'error': msg}), status
ErrorResponse(msg, status) == [status |-> status, body |-> [error |-> msg]]

\* jsonify(response) of lines 142-147 and 219-224
FullResponse(dominant_emotion, emotion_scores) ==
    [status |-> 200,
     body |-> [dominantEmotion |-> dominant_emotion, emotions |-> emotion_scores]]

\* lines 24-31: pixel values as numerators over 255; x / 255.0 keeps the
\* numerator, (x - 0.5) * 2.0 maps numerator p to 2p - 255
preprocess_input(x, v2) ==
    IF v2 THEN [x EXCEPT !.lo = 2 * x.lo - 255, !.hi = 2 * x.hi - 255]
    ELSE x

\* cv2.resize(roi, (48, 48)) then the two np.expand_dims: batch and channel
resize_expand(g, roi) ==
    [roi |-> roi, shape |-> <<1, InputSize, InputSize, 1>>, lo |-> g.lo, hi |-> g.hi]

\* the whole frame as a rectangle
WholeFrame(g) == <<0, 0, g.w, g.h>>

\* lines 107-118 and 128-132: the classifier input detect_emotion builds
detect_emotion_face_input(g, fs) ==
    IF Len(fs) > 0
    THEN preprocess_input(resize_expand(g, fs[1]), TRUE)
    ELSE preprocess_input(resize_expand(g, WholeFrame(g)), TRUE)

\* a variant of analyze_image_face_input that crops the last region
analyze_image_face_input_last(g, fs) ==
    IF Len(fs) > 0
    THEN preprocess_input(resize_expand(g, fs[Len(fs)]), TRUE)
    ELSE preprocess_input(resize_expand(g, WholeFrame(g)), TRUE)

\* lines 184-195 and 205-209: the classifier input analyze_image builds
analyze_image_face_input(g, fs) ==
    IF Len(fs) > 0
    THEN preprocess_input(resize_expand(g, fs[1]), TRUE)
    ELSE preprocess_input(resize_expand(g, WholeFrame(g)), TRUE)

\* float(score): the numpy float32 scalar as a plain Python float, same number
float(score) == score.f32

\* a variant of argmax that breaks ties towards the last maximum
argmax_last(v) ==
    (CHOOSE i \in 1..Len(v) :
        /\ \A j \in 1..Len(v) : v[j].f32 <= v[i].f32
        /\ \A j \in (i + 1)..Len(v) : v[j].f32 < v[i].f32) - 1

\* np.argmax over a non-empty vector: 0-based index of the first maximum
argmax(v) ==
    (CHOOSE i \in 1..Len(v) :
        /\ \A j \in 1..Len(v) : v[j].f32 <= v[i].f32
        /\ \A j \in 1..(i - 1) : v[j].f32 < v[i].f32) - 1

\* {emotion: float(score) for emotion, score in zip(EMOTIONS, emotion_scores)}:
\* zip stops at the shorter of the two
zip_dict(v) ==
    LET n == IF Len(v) < Len(EMOTIONS) THEN Len(v) ELSE Len(EMOTIONS)
    IN  [e \in {EMOTIONS[i] : i \in 1..n} |->
            float(v[CHOOSE i \in 1..n : EMOTIONS[i] = e])]

\* lines 121-126 / 134-139 (198-203 / 211-216) on the vector predict returned,
\* then the return of lines 142-147; an exception goes to the handler's except
label_scores(v) ==
    IF Len(v) = 0
    THEN ErrorResponse("attempt to get argmax of an empty sequence", 500)
    ELSE LET max_index == argmax(v)
         IN  IF max_index >= Len(EMOTIONS)
             THEN ErrorResponse("list index out of range", 500)
             ELSE FullResponse(EMOTIONS[max_index + 1], zip_dict(v))

\* a variant of detect_emotion_classify whose no-face branch keeps the
\* defaults of lines 103-104
detect_emotion_classify_defaults(fs, v) ==
    IF Len(fs) > 0 THEN label_scores(v)
    ELSE FullResponse("Neutral", [e \in {EMOTIONS[i] : i \in 1..Len(EMOTIONS)} |-> 0])

\* lines 102-147: detect_emotion from the detector's answer to the return
detect_emotion_classify(fs, v) ==
    IF Len(fs) > 0 THEN label_scores(v) ELSE label_scores(v)

\* lines 179-224: analyze_image from the detector's answer to the return
analyze_image_classify(fs, v) ==
    IF Len(fs) > 0 THEN label_scores(v) ELSE label_scores(v)

\* a variant of detect_emotion_decode without the "'image' not in data" test:
\* data['image'] raises KeyError, caught at line 149
detect_emotion_decode_nokeytest(i) ==
    IF i = "unparsable"
    THEN [gray |-> NoRaster, resp |-> ErrorResponse("400 Bad Request", 500)]
    ELSE IF i \in {"null", "empty"}
    THEN [gray |-> NoRaster, resp |-> ErrorResponse("No image data provided", 400)]
    ELSE IF i = "noimage"
    THEN [gray |-> NoRaster, resp |-> ErrorResponse("'image'", 500)]
    ELSE IF i = "bad_b64"
    THEN [gray |-> NoRaster, resp |-> ErrorResponse("Incorrect padding", 500)]
    ELSE IF i = "not_image"
    THEN [gray |-> NoRaster, resp |-> ErrorResponse("cv2.error: cvtColor: !_src.empty()", 500)]
    ELSE [gray |-> Frame, resp |-> NoResponse]

\* lines 81-97: detect_emotion from request.json to the grayscale raster; an
\* exception of request.json, b64decode or cvtColor is answered at line 149
detect_emotion_decode(i) ==
    IF i = "unparsable"
    THEN [gray |-> NoRaster, resp |-> ErrorResponse("400 Bad Request", 500)]
    ELSE IF i \in {"null", "empty", "noimage"}
    THEN [gray |-> NoRaster, resp |-> ErrorResponse("No image data provided", 400)]
    ELSE IF i = "bad_b64"
    THEN [gray |-> NoRaster, resp |-> ErrorResponse("Incorrect padding", 500)]
    ELSE IF i = "not_image"
    THEN [gray |-> NoRaster, resp |-> ErrorResponse("cv2.error: cvtColor: !_src.empty()", 500)]
    ELSE [gray |-> Frame, resp |-> NoResponse]

\* a variant of analyze_image_decode that goes on to the detector with the
\* missing raster when imdecode yields none
analyze_image_decode_unchecked(i) ==
    IF i = "nofile"
    THEN [gray |-> NoRaster, resp |-> ErrorResponse("No file part", 400)]
    ELSE IF i = "noname"
    THEN [gray |-> NoRaster, resp |-> ErrorResponse("No selected file", 400)]
    ELSE IF i = "not_image"
    THEN [gray |-> NoRaster, resp |-> NoResponse]
    ELSE [gray |-> Frame, resp |-> NoResponse]

\* lines 159-176: analyze_image from request.files to the grayscale raster
analyze_image_decode(i) ==
    IF i = "nofile"
    THEN [gray |-> NoRaster, resp |-> ErrorResponse("No file part", 400)]
    ELSE IF i = "noname"
    THEN [gray |-> NoRaster, resp |-> ErrorResponse("No selected file", 400)]
    ELSE IF i = "not_image"
    THEN [gray |-> NoRaster, resp |-> ErrorResponse("cv2.error: cvtColor: !_src.empty()", 500)]
    ELSE [gray |-> Frame, resp |-> NoResponse]

\* ------------------------------------------------------------------ actions
\* what a thread holds between requests
Reset(t) ==
    /\ pc' = [pc EXCEPT ![t] = "idle"]
    /\ kind' = [kind EXCEPT ![t] = "health"]
    /\ inp' = [inp EXCEPT ![t] = "none"]
    /\ loadRet' = [loadRet EXCEPT ![t] = "none"]
    /\ gray' = [gray EXCEPT ![t] = NoRaster]
    /\ faces' = [faces EXCEPT ![t] = <<>>]
    /\ tensor' = [tensor EXCEPT ![t] = NoTensor]
    /\ out' = [out EXCEPT ![t] = NoOutput]
    /\ detCalls' = [detCalls EXCEPT ![t] = 0]
    /\ clsCalls' = [clsCalls EXCEPT ![t] = 0]
    /\ resp' = [resp EXCEPT ![t] = NoResponse]

\* the handler returns: its value is the response
Return(t, r) ==
    /\ pc' = [pc EXCEPT ![t] = "done"]
    /\ resp' = [resp EXCEPT ![t] = r]

\* lines 65-66, 75-76, 153-154: the server hands a request to a thread, which
\* enters the handler and calls load_models
Dispatch(t, P) ==
    /\ pc[t] = "idle"
    /\ \E k \in Kinds : \E i \in P.inputs[k] :
          /\ kind' = [kind EXCEPT ![t] = k]
          /\ inp' = [inp EXCEPT ![t] = i]
    /\ pc' = [pc EXCEPT ![t] = "load_file"]
    /\ UNCHANGED <<globals, locals, loadRet, resp>>

\* lines 38-43: the cascade file is there, or is downloaded; urlretrieve
\* raising is outside every try, in load_models and in the handler
LoadCascadeFile(t) ==
    /\ pc[t] = "load_file"
    /\ \/ /\ cascade_file
          /\ pc' = [pc EXCEPT ![t] = "check_face"]
          /\ UNCHANGED cascade_file
       \/ /\ ~cascade_file
          /\ cascade_file' = TRUE
          /\ pc' = [pc EXCEPT ![t] = "check_face"]
       \/ /\ ~cascade_file
          /\ pc' = [pc EXCEPT ![t] = "raised"]
          /\ UNCHANGED cascade_file
    /\ UNCHANGED <<face_detection, emotion_model, faceLoads, emoLoads, locals,
                   kind, inp, loadRet, resp>>

\* line 46: if face_detection is None
CheckFace(t) ==
    /\ pc[t] = "check_face"
    /\ pc' = [pc EXCEPT ![t] = IF face_detection = None THEN "load_face"
                                ELSE "check_emotion"]
    /\ UNCHANGED <<globals, locals, kind, inp, loadRet, resp>>

\* lines 47-52: construct the detector and bind the global, or return False
LoadFace(t) ==
    /\ pc[t] = "load_face"
    /\ \/ /\ faceLoads' = faceLoads + 1
          /\ face_detection' = faceLoads + 1
          /\ pc' = [pc EXCEPT ![t] = "check_emotion"]
          /\ UNCHANGED loadRet
       \/ /\ loadRet' = [loadRet EXCEPT ![t] = "False"]
          /\ pc' = [pc EXCEPT ![t] = "loaded"]
          /\ UNCHANGED <<faceLoads, face_detection>>
    /\ UNCHANGED <<cascade_file, emotion_model, emoLoads, locals, kind, inp, resp>>

\* line 55: if emotion_model is None; line 63: return True
CheckEmotion(t) ==
    /\ pc[t] = "check_emotion"
    /\ IF emotion_model = None
       THEN /\ pc' = [pc EXCEPT ![t] = "load_emotion"]
            /\ UNCHANGED loadRet
       ELSE /\ pc' = [pc EXCEPT ![t] = "loaded"]
            /\ loadRet' = [loadRet EXCEPT ![t] = "True"]
    /\ UNCHANGED <<globals, locals, kind, inp, resp>>

\* a variant of load_emotion_failed that swallows the failure
load_emotion_failed_ignored == "True"

\* what load_models returns when load_model raised (lines 59-61)
load_emotion_failed == "False"

\* lines 56-63: construct the classifier and bind the global, or return False
LoadEmotion(t) ==
    /\ pc[t] = "load_emotion"
    /\ \/ /\ emoLoads' = emoLoads + 1
          /\ emotion_model' = emoLoads + 1
          /\ loadRet' = [loadRet EXCEPT ![t] = "True"]
       \/ /\ loadRet' = [loadRet EXCEPT ![t] = load_emotion_failed]
          /\ UNCHANGED <<emoLoads, emotion_model>>
    /\ pc' = [pc EXCEPT ![t] = "loaded"]
    /\ UNCHANGED <<cascade_file, face_detection, faceLoads, locals, kind, inp, resp>>

\* lines 68-73
health_check(t) ==
    /\ pc[t] = "loaded"
    /\ kind[t] = "health"
    /\ Return(t, [status |-> 200,
                  body |-> [status |-> IF loadRet[t] = "True" THEN "healthy"
                                       ELSE "unhealthy",
                            models_loaded |-> loadRet[t]]])
    /\ UNCHANGED <<globals, locals, kind, inp, loadRet>>

\* the decode step of the handler serving the request
Decode(k, i) ==
    IF k = "detect" THEN detect_emotion_decode(i) ELSE analyze_image_decode(i)

\* lines 78-97 (detect_emotion) and 156-176 (analyze_image): the load_models
\* guard, the input checks and the decode to a grayscale raster
ParseRequest(t) ==
    /\ pc[t] = "loaded"
    /\ kind[t] \in {"detect", "analyze"}
    /\ IF loadRet[t] # "True"
       THEN /\ Return(t, ErrorResponse("Failed to load models", 500))
            /\ UNCHANGED gray
       ELSE LET d == Decode(kind[t], inp[t])
            IN  IF d.resp # NoResponse
                THEN /\ Return(t, d.resp)
                     /\ UNCHANGED gray
                ELSE /\ gray' = [gray EXCEPT ![t] = d.gray]
                     /\ pc' = [pc EXCEPT ![t] = "detect"]
                     /\ UNCHANGED resp
    /\ UNCHANGED <<globals, faces, tensor, out, detCalls, clsCalls, kind, inp, loadRet>>

\* the classifier input of the handler serving the request
FaceInput(k, g, fs) ==
    IF k = "detect" THEN detect_emotion_face_input(g, fs)
    ELSE analyze_image_face_input(g, fs)

\* lines 100-118 / 128-132 (177-195 / 205-209): face_detection.detectMultiScale,
\* which answers with a sequence of rectangles or raises, then the crop,
\* resize and preprocessing up to the predict call
DetectFaces(t, P) ==
    /\ pc[t] = "detect"
    /\ IF face_detection = None
       THEN /\ Return(t, ErrorResponse("'NoneType' object has no attribute 'detectMultiScale'", 500))
            /\ UNCHANGED <<faces, tensor, detCalls>>
       ELSE /\ detCalls' = [detCalls EXCEPT ![t] = detCalls[t] + 1]
            /\ \/ \E fs \in P.faces :
                     /\ faces' = [faces EXCEPT ![t] = fs]
                     /\ tensor' = [tensor EXCEPT ![t] = FaceInput(kind[t], gray[t], fs)]
                     /\ pc' = [pc EXCEPT ![t] = "predict"]
                     /\ UNCHANGED resp
               \/ /\ Return(t, ErrorResponse("cv2.error: detectMultiScale", 500))
                  /\ UNCHANGED <<faces, tensor>>
    /\ UNCHANGED <<globals, gray, out, clsCalls, kind, inp, loadRet>>

\* the response of the handler serving the request
Classify(k, fs, v) ==
    IF k = "detect" THEN detect_emotion_classify(fs, v)
    ELSE analyze_image_classify(fs, v)

\* lines 121-151 / 134-151 (198-228 / 211-228): emotion_model.predict, which
\* answers with a score vector or raises, then the labelling and the return
Predict(t, P) ==
    /\ pc[t] = "predict"
    /\ IF emotion_model = None
       THEN /\ Return(t, ErrorResponse("'NoneType' object has no attribute 'predict'", 500))
            /\ UNCHANGED <<out, clsCalls>>
       ELSE /\ clsCalls' = [clsCalls EXCEPT ![t] = clsCalls[t] + 1]
            /\ \/ /\ out' = [out EXCEPT ![t] = NoOutput]
                  /\ Return(t, ErrorResponse("predict failed", 500))
               \/ \E v \in P.outputs :
                     /\ out' = [out EXCEPT ![t] = [ok |-> TRUE, v |-> v]]
                     /\ Return(t, Classify(kind[t], faces[t], v))
    /\ UNCHANGED <<globals, gray, faces, tensor, detCalls, kind, inp, loadRet>>

\* the response is sent (or the server reports the unhandled exception) and
\* the thread is free for the next request
Finish(t) ==
    /\ pc[t] \in {"done", "raised"}
    /\ Reset(t)
    /\ UNCHANGED globals

Step(t, P) ==
    \/ Dispatch(t, P)
    \/ LoadCascadeFile(t)
    \/ CheckFace(t)
    \/ LoadFace(t)
    \/ CheckEmotion(t)
    \/ LoadEmotion(t)
    \/ health_check(t)
    \/ ParseRequest(t)
    \/ DetectFaces(t, P)
    \/ Predict(t, P)
    \/ Finish(t)

\* ------------------------------------------------------------ specifications
\* concurrent requests; the external collaborators answer from small sets
ConcProfile ==
    [inputs |-> [k \in Kinds |-> AllInputs(k) \cap {"none", "noimage", "image"}],
     faces |-> {fs \in FaceSeqs : Len(fs) <= 1},
     outputs |-> {[j \in 1..Len(EMOTIONS) |-> F32(0)]}]

\* one request at a time; the collaborators answer anything within the bounds
SeqProfile ==
    [inputs |-> [k \in Kinds |-> AllInputs(k)],
     faces |-> FaceSeqs,
     outputs |-> AllOutputs]

Next == \E t \in Threads : Step(t, ConcProfile)
Spec == Init /\ [][Next]_vars

NextSeq == Step(1, SeqProfile)
SpecSeq == Init /\ [][NextSeq]_vars

\* ------------------------------------------------------- vocabulary of claims
Labels == {EMOTIONS[i] : i \in 1..Len(EMOTIONS)}

\* {'error': <non-empty message>} with HTTP status 400 or 500
IsErrorPayload(r) ==
    /\ r.status \in {400, 500}
    /\ DOMAIN r.body = {"error"}
    /\ r.body.error # ""

\* {dominantEmotion, emotions} with a label of the fixed set and all 7 keys
IsFullResult(r) ==
    /\ r.status = 200
    /\ DOMAIN r.body = {"dominantEmotion", "emotions"}
    /\ r.body.dominantEmotion \in Labels
    /\ DOMAIN r.body.emotions = Labels

\* i is the first (1-based) index of v that attains the maximum score
FirstMax(v, i) ==
    /\ i \in 1..Len(v)
    /\ \A j \in 1..Len(v) : v[j].f32 <= v[i].f32
    /\ \A j \in 1..(i - 1) : v[j].f32 < v[i].f32

\* r is the success response read off the length-7 vector v
ReadOff(r, v) ==
    /\ IsFullResult(r)
    /\ \E i \in 1..Len(EMOTIONS) : FirstMax(v, i) /\ r.body.dominantEmotion = EMOTIONS[i]
    /\ \A i \in 1..Len(EMOTIONS) : r.body.emotions[EMOTIONS[i]] = v[i].f32

Served(t) == pc[t] = "done" /\ kind[t] \in {"detect", "analyze"}

\* the request lacks its required input
MissingInput(t) ==
    \/ kind[t] = "detect" /\ inp[t] \in {"null", "empty", "noimage"}
    \/ kind[t] = "analyze" /\ inp[t] \in {"nofile", "noname"}

\* the request carries bytes that do not decode to an image
BadImage(t) ==
    /\ kind[t] \in {"detect", "analyze"}
    /\ inp[t] \in {"bad_b64", "not_image"}

\* detectMultiScale answered (did not raise) for this request
Located(t) == detCalls[t] = 1 /\ tensor[t] # NoTensor

\* the example of the specification, in tenths: [0, 0, 0, 0.9, 0, 0, 0.1]
Example == <<F32(0), F32(0), F32(0), F32(9), F32(0), F32(0), F32(1)>>

\* ----------------------------------------------------------------- claims

\* C1 (as stated): under any interleaving of requests the detector and the
\* classifier are each constructed at most once, so a loaded one is never
\* replaced by a second load.
C1_ConstructedAtMostOnce == faceLoads <= 1 /\ emoLoads <= 1

\* C2 (as stated): no exception escapes a handler; every failure met while
\* serving a request, load_models included, ends in the handler returning.
C2_NoExceptionEscapes ==
    \A t \in Threads : kind[t] \in {"detect", "analyze"} => pc[t] # "raised"

\* C3 (as stated): once the image decoded and the locator answered with zero
\* regions the request does not fail: it ends in a success response.
C3_FallbackNeverFails ==
    \A t \in Threads :
        (Served(t) /\ Located(t) /\ faces[t] = <<>>) => resp[t].status = 200

\* C3 (amended): once the image decoded and the locator answered with zero
\* regions, the classifier input is the whole frame (no crop), the classifier
\* is invoked exactly once, a length-7 answer yields the success response read
\* off that answer, and a classifier that raises yields a 500 error payload.
C3_FallbackUsesWholeFrame ==
    \A t \in Threads :
        (Located(t) /\ faces[t] = <<>>) =>
            /\ tensor[t].roi = WholeFrame(gray[t])
            /\ tensor[t].shape = <<1, InputSize, InputSize, 1>>
            /\ Served(t) =>
                  /\ clsCalls[t] = 1
                  /\ (out[t].ok /\ Len(out[t].v) = Len(EMOTIONS)) => ReadOff(resp[t], out[t].v)
                  /\ ~out[t].ok => (IsErrorPayload(resp[t]) /\ resp[t].status = 500)

\* C3 witness: a no-face request answered from the classifier, not from the
\* 'Neutral'/all-zero defaults
C3_Witness ==
    \E t \in Threads :
        /\ Served(t) /\ Located(t) /\ faces[t] = <<>>
        /\ out[t].ok /\ out[t].v = Example
        /\ resp[t].status = 200
        /\ resp[t].body.dominantEmotion = "Happy"
        /\ resp[t].body.emotions["Happy"] = 9

\* C4: for every length-7 vector the classifier returns, dominantEmotion is the
\* label at the first index attaining the maximum and emotions[label_i] is
\* score_i; [0,0,0,0.9,0,0,0.1] gives 'Happy' and emotions['Happy'] = 0.9.
C4_DominantIsFirstMax ==
    \A t \in Threads :
        (Served(t) /\ out[t].ok /\ Len(out[t].v) = Len(EMOTIONS)) =>
            /\ ReadOff(resp[t], out[t].v)
            /\ out[t].v = Example =>
                  /\ resp[t].body.dominantEmotion = "Happy"
                  /\ resp[t].body.emotions["Happy"] = 9

\* C4 witness: a tie between two maxima, answered with the earlier label
C4_Witness ==
    \E t \in Threads :
        /\ Served(t) /\ out[t].ok /\ Len(out[t].v) = Len(EMOTIONS)
        /\ out[t].v[2].f32 = 9 /\ out[t].v[5].f32 = 9 /\ out[t].v[1].f32 < 9
        /\ resp[t].status = 200
        /\ resp[t].body.dominantEmotion = "Disgust"

\* C5 (as stated): every response of detect_emotion and analyze_image is an
\* error payload or a full result (a label of the fixed set, all 7 keys).
C5_ErrorOrFullResult ==
    \A t \in Threads : Served(t) => (IsErrorPayload(resp[t]) \/ IsFullResult(resp[t]))

\* C6 (as stated): a classifier answer whose length is not 7 ends in an error
\* payload, never in a success response.
C6_LengthMismatchIsError ==
    \A t \in Threads :
        (Served(t) /\ out[t].ok /\ Len(out[t].v) # Len(EMOTIONS)) => IsErrorPayload(resp[t])

\* C7 (as stated): a request that lacks its required input is answered with
\* HTTP 400 and an error payload, and runs neither detector nor classifier.
C7_MissingInputIs400 ==
    \A t \in Threads :
        (Served(t) /\ MissingInput(t)) =>
            /\ resp[t].status = 400
            /\ IsErrorPayload(resp[t])
            /\ detCalls[t] = 0 /\ clsCalls[t] = 0

\* C7 (amended): a request that lacks its required input never runs the
\* detector or the classifier; it is answered with HTTP 400 and an error
\* payload when load_models returned True, and with the 500 'Failed to load
\* models' payload when load_models returned False.
C7_MissingInputAfterLoad ==
    \A t \in Threads :
        MissingInput(t) =>
            /\ detCalls[t] = 0 /\ clsCalls[t] = 0
            /\ gray[t] = NoRaster
            /\ pc[t] \notin {"detect", "predict"}
            /\ (pc[t] = "done" /\ loadRet[t] = "True") =>
                  (resp[t].status = 400 /\ IsErrorPayload(resp[t]))
            /\ (pc[t] = "done" /\ loadRet[t] = "False") =>
                  resp[t] = ErrorResponse("Failed to load models", 500)

\* C7 witness: a dict without 'image' answered 400 after a successful load
C7_Witness ==
    \E t \in Threads :
        /\ kind[t] = "detect" /\ inp[t] = "noimage"
        /\ pc[t] = "done" /\ loadRet[t] = "True"
        /\ resp[t] = ErrorResponse("No image data provided", 400)

\* C8: when the bytes do not decode to an image (base64 decoding fails, or the
\* image decoder yields no raster), the handler returns an error payload with
\* status 400 or 500 and a non-empty message; the detector is not run, so no
\* result of it is used, and the classifier is not invoked.
C8_BadImageIsError ==
    \A t \in Threads :
        BadImage(t) =>
            /\ detCalls[t] = 0 /\ clsCalls[t] = 0
            /\ faces[t] = <<>> /\ tensor[t] = NoTensor
            /\ loadRet[t] = "True" => pc[t] \in {"loaded", "done"}
            /\ pc[t] = "done" => IsErrorPayload(resp[t])

\* C8 witness: non-image bytes reached the decoder and the handler answered 500
C8_Witness ==
    \E t \in Threads :
        /\ kind[t] = "analyze" /\ inp[t] = "not_image"
        /\ loadRet[t] = "True" /\ pc[t] = "done"
        /\ resp[t].status = 500

\* C9: whenever the locator answers with one or more regions, the classifier
\* input is element 0 of the answer, resized to 48x48 and preprocessed in the
\* centered mode, whatever the other regions are, in detect_emotion and in
\* analyze_image alike; a successful request invokes the classifier once.
C9_FirstRegionIsUsed ==
    \A t \in Threads :
        /\ (Located(t) /\ Len(faces[t]) >= 1) =>
              tensor[t] = [roi |-> faces[t][1],
                           shape |-> <<1, InputSize, InputSize, 1>>,
                           lo |-> -255, hi |-> 255]
        /\ (Served(t) /\ resp[t].status = 200) => (clsCalls[t] = 1 /\ detCalls[t] = 1)

\* C9 witness: analyze_image got a small region before a larger one and
\* answered from the small one
C9_Witness ==
    \E t \in Threads :
        /\ kind[t] = "analyze" /\ Served(t) /\ resp[t].status = 200
        /\ Len(faces[t]) = 2
        /\ faces[t][1][3] * faces[t][1][4] < faces[t][2][3] * faces[t][2][4]
        /\ tensor[t].roi = faces[t][1]

\* C10: under any interleaving and any sequence of failed and successful
\* loads, the detector and the classifier are called only while both globals
\* are set; load_models returns True only if both are set; and a request whose
\* load_models returned False gets the 500 'Failed to load models' payload
\* before any image processing.
C10_ModelsSetWhenCalled ==
    \A t \in Threads :
        /\ (pc[t] \in {"detect", "predict"} \/ detCalls[t] > 0 \/ clsCalls[t] > 0) =>
              (face_detection # None /\ emotion_model # None)
        /\ loadRet[t] = "True" => (face_detection # None /\ emotion_model # None)
        /\ loadRet[t] = "False" =>
              /\ pc[t] \in {"loaded", "done"}
              /\ gray[t] = NoRaster /\ detCalls[t] = 0 /\ clsCalls[t] = 0
              /\ Served(t) => resp[t] = ErrorResponse("Failed to load models", 500)
        /\ pc[t] = "done" =>
              (DOMAIN resp[t].body = {"error"} =>
                  resp[t].body.error \notin
                      {"'NoneType' object has no attribute 'detectMultiScale'",
                       "'NoneType' object has no attribute 'predict'"})

\* C10 witness: one request is about to call the classifier while another,
\* whose own classifier load failed, has been answered 'Failed to load models'
C10_Witness ==
    \E t1, t2 \in Threads :
        /\ pc[t1] = "predict"
        /\ kind[t2] = "detect" /\ loadRet[t2] = "False" /\ pc[t2] = "done"
        /\ resp[t2] = ErrorResponse("Failed to load models", 500)

====
